---------------------------- MODULE Spec2Model ----------------------------
(***************************************************************************)
(* A model of src/main.py: the exam-preparation question generator.        *)
(*                                                                         *)
(* Text is modelled by TLA+ strings (Len, SubSeq and \o act on them as on  *)
(* sequences of characters), so the prompt templates, the brace scan of    *)
(* _parse_json and the JSON conversions are computed character by          *)
(* character.  A JSON value (what json.loads returns) is a tagged tuple:   *)
(*    <<"str", s>>       a Python str                                      *)
(*    <<"int", n>>       a Python int                                      *)
(*    <<"lit", w>>       True / False / None, w the JSON word              *)
(*    <<"const", w>>     the floats NaN, Infinity, -Infinity               *)
(*    <<"arr", elems>>   a list, elems a sequence of values                *)
(*    <<"obj", pairs>>   a dict, pairs a sequence of <<key, value>> with   *)
(*                       distinct keys, in insertion order                 *)
(***************************************************************************)
EXTENDS Integers, Sequences, FiniteSets, TLC

(***************************************************************************)
(* Text primitives (Python str operations used by the program).            *)
(***************************************************************************)
\* content[i], i counted from 1.
CharAt(s, i) == SubSeq(s, i, i)

\* str.find(c) for a one-character c: the lowest 0-based index, or -1.
find(s, c) ==
    IF \E i \in 1..Len(s) : CharAt(s, i) = c
    THEN (CHOOSE i \in 1..Len(s) :
             /\ CharAt(s, i) = c
             /\ \A j \in 1..(i - 1) : CharAt(s, j) # c) - 1
    ELSE -1

\* rfind as a slip would have it: the lowest index, like find.
rfind_lowest(s, c) ==
    IF \E i \in 1..Len(s) : CharAt(s, i) = c
    THEN (CHOOSE i \in 1..Len(s) :
             /\ CharAt(s, i) = c
             /\ \A j \in 1..(i - 1) : CharAt(s, j) # c) - 1
    ELSE -1

\* str.rfind(c) for a one-character c: the highest 0-based index, or -1.
rfind(s, c) ==
    IF \E i \in 1..Len(s) : CharAt(s, i) = c
    THEN (CHOOSE i \in 1..Len(s) :
             /\ CharAt(s, i) = c
             /\ \A j \in (i + 1)..Len(s) : CharAt(s, j) # c) - 1
    ELSE -1

\* content[start:end] for 0 <= start, 0 <= end (0-based, end exclusive).
Slice(s, start, end) == SubSeq(s, start + 1, end)

\* str(n) for an int n, as an f-string renders it.
RECURSIVE NatToStr(_)
NatToStr(n) ==
    IF n < 10 THEN CharAt("0123456789", n + 1)
    ELSE NatToStr(n \div 10) \o CharAt("0123456789", (n % 10) + 1)

IntToStr(n) == IF n < 0 THEN "-" \o NatToStr(0 - n) ELSE NatToStr(n)

(***************************************************************************)
(* json.loads, as the standard decoder scans (json.decoder / json.scanner, *)
(* strict mode).  Each scanner returns [ok, val, pos]: pos is the 1-based  *)
(* index of the first character after the value.  Not modelled, and absent *)
(* from every input drawn below: float lexemes (a digit followed by '.',   *)
(* 'e' or 'E') and the escapes \b and \uXXXX.                              *)
(***************************************************************************)
Whitespace == {" ", "\t", "\n", "\r"}
Digits == {"0", "1", "2", "3", "4", "5", "6", "7", "8", "9"}
ControlChars == {"\t", "\n", "\r", "\f"}

ScanFail == [ok |-> FALSE, val |-> <<"none">>, pos |-> 0]
ScanOk(v, p) == [ok |-> TRUE, val |-> v, pos |-> p]

\* WHITESPACE.match(s, i).end(): the first index at or after i that holds no
\* whitespace.
SkipWs(s, i) ==
    IF i > Len(s) THEN i
    ELSE CHOOSE j \in i..(Len(s) + 1) :
             /\ j = Len(s) + 1 \/ CharAt(s, j) \notin Whitespace
             /\ \A k \in i..(j - 1) : CharAt(s, k) \in Whitespace

\* The value of a run of decimal digits.
DigitVal(c) == CHOOSE d \in 0..9 : CharAt("0123456789", d + 1) = c

RECURSIVE ScanDigits(_, _, _)
ScanDigits(s, i, acc) ==
    IF i <= Len(s) /\ CharAt(s, i) \in Digits
    THEN ScanDigits(s, i + 1, acc * 10 + DigitVal(CharAt(s, i)))
    ELSE ScanOk(<<"int", acc>>, i)

\* NUMBER_RE restricted to integers: -?(0|[1-9][0-9]*).
ScanNumber(s, i) ==
    LET neg == i <= Len(s) /\ CharAt(s, i) = "-"
        j   == IF neg THEN i + 1 ELSE i
    IN  IF j > Len(s) \/ CharAt(s, j) \notin Digits THEN ScanFail
        ELSE LET r == IF CharAt(s, j) = "0" THEN ScanOk(<<"int", 0>>, j + 1)
                      ELSE ScanDigits(s, j, 0)
             IN  ScanOk(<<"int", IF neg THEN 0 - r.val[2] ELSE r.val[2]>>, r.pos)

\* The character an escape \e stands for ("" when the escape is invalid).
Unescape(e) ==
    CASE e = "\"" -> "\""
      [] e = "\\" -> "\\"
      [] e = "/"  -> "/"
      [] e = "n"  -> "\n"
      [] e = "r"  -> "\r"
      [] e = "t"  -> "\t"
      [] e = "f"  -> "\f"
      [] OTHER    -> ""

\* The backslashes that end just before index k, counted back to index i.
BackslashRun(s, i, k) ==
    (k - 1) - (CHOOSE m \in (i - 1)..(k - 1) :
                  /\ m = i - 1 \/ CharAt(s, m) # "\\"
                  /\ \A n \in (m + 1)..(k - 1) : CharAt(s, n) = "\\")

\* In a string that starts at index i, the character at k is the second
\* character of an escape.
Escaped(s, i, k) == BackslashRun(s, i, k) % 2 = 1

\* The decoded characters of s[lo..hi], inside a string that starts at i.
RECURSIVE Decode(_, _, _, _)
Decode(s, i, lo, hi) ==
    IF lo > hi THEN ""
    ELSE IF lo = hi
         THEN IF Escaped(s, i, lo) THEN Unescape(CharAt(s, lo))
              ELSE IF CharAt(s, lo) = "\\" THEN "" ELSE CharAt(s, lo)
         ELSE Decode(s, i, lo, (lo + hi) \div 2) \o Decode(s, i, ((lo + hi) \div 2) + 1, hi)

\* py_scanstring (strict): i is the index after the opening quote.  The
\* string ends at the first quote that no backslash escapes; it is rejected
\* when it does not end, holds a control character or an invalid escape.
ScanString(s, i) ==
    IF \E k \in i..Len(s) : CharAt(s, k) = "\"" /\ ~Escaped(s, i, k)
    THEN LET close == CHOOSE k \in i..Len(s) :
                         /\ CharAt(s, k) = "\"" /\ ~Escaped(s, i, k)
                         /\ \A n \in i..(k - 1) :
                               ~(CharAt(s, n) = "\"" /\ ~Escaped(s, i, n))
         IN  IF \E n \in i..(close - 1) :
                    \/ CharAt(s, n) \in ControlChars
                    \/ Escaped(s, i, n) /\ Unescape(CharAt(s, n)) = ""
             THEN ScanFail
             ELSE ScanOk(<<"str", Decode(s, i, i, close - 1)>>, close + 1)
    ELSE ScanFail

\* dict(pairs): a repeated key keeps its first position and takes the last
\* value.
HasKey(pairs, k) == \E n \in 1..Len(pairs) : pairs[n][1] = k

PutPair(pairs, k, v) ==
    IF HasKey(pairs, k)
    THEN [n \in 1..Len(pairs) |->
             IF pairs[n][1] = k THEN <<k, v>> ELSE pairs[n]]
    ELSE Append(pairs, <<k, v>>)

StartsWith(s, i, w) == i + Len(w) - 1 <= Len(s) /\ SubSeq(s, i, i + Len(w) - 1) = w

RECURSIVE ScanOnce(_, _)
RECURSIVE ParseMembers(_, _, _)
RECURSIVE ParseElements(_, _, _)

\* JSONObject's loop: i is the index after the opening quote of a key.
ParseMembers(s, i, pairs) ==
    LET key == ScanString(s, i)
    IN  IF ~key.ok THEN ScanFail
        ELSE LET colon == SkipWs(s, key.pos)
             IN  IF colon > Len(s) \/ CharAt(s, colon) # ":" THEN ScanFail
                 ELSE LET value == ScanOnce(s, SkipWs(s, colon + 1))
                      IN  IF ~value.ok THEN ScanFail
                          ELSE LET more == PutPair(pairs, key.val[2], value.val)
                                   sep  == SkipWs(s, value.pos)
                               IN  IF sep > Len(s) THEN ScanFail
                                   ELSE IF CharAt(s, sep) = "}"
                                        THEN ScanOk(<<"obj", more>>, sep + 1)
                                   ELSE IF CharAt(s, sep) # "," THEN ScanFail
                                   ELSE LET nxt == SkipWs(s, sep + 1)
                                        IN  IF nxt > Len(s) \/ CharAt(s, nxt) # "\""
                                            THEN ScanFail
                                            ELSE ParseMembers(s, nxt + 1, more)

\* JSONObject: i is the index after the opening brace.
ParseObject(s, i) ==
    LET j == SkipWs(s, i)
    IN  IF j > Len(s) THEN ScanFail
        ELSE IF CharAt(s, j) = "}" THEN ScanOk(<<"obj", <<>>>>, j + 1)
        ELSE IF CharAt(s, j) # "\"" THEN ScanFail
        ELSE ParseMembers(s, j + 1, <<>>)

\* JSONArray's loop: i is the index of the next element.
ParseElements(s, i, elems) ==
    LET value == ScanOnce(s, i)
    IN  IF ~value.ok THEN ScanFail
        ELSE LET more == Append(elems, value.val)
                 sep  == SkipWs(s, value.pos)
             IN  IF sep > Len(s) THEN ScanFail
                 ELSE IF CharAt(s, sep) = "]" THEN ScanOk(<<"arr", more>>, sep + 1)
                 ELSE IF CharAt(s, sep) # "," THEN ScanFail
                 ELSE ParseElements(s, SkipWs(s, sep + 1), more)

\* JSONArray: i is the index after the opening bracket.
ParseArray(s, i) ==
    LET j == SkipWs(s, i)
    IN  IF j > Len(s) THEN ScanFail
        ELSE IF CharAt(s, j) = "]" THEN ScanOk(<<"arr", <<>>>>, j + 1)
        ELSE ParseElements(s, j, <<>>)

\* scanner.py_make_scanner._scan_once.
ScanOnce(s, i) ==
    IF i > Len(s) THEN ScanFail
    ELSE LET c == CharAt(s, i)
         IN  IF c = "\"" THEN ScanString(s, i + 1)
             ELSE IF c = "{" THEN ParseObject(s, i + 1)
             ELSE IF c = "[" THEN ParseArray(s, i + 1)
             ELSE IF StartsWith(s, i, "null") THEN ScanOk(<<"lit", "null">>, i + 4)
             ELSE IF StartsWith(s, i, "true") THEN ScanOk(<<"lit", "true">>, i + 4)
             ELSE IF StartsWith(s, i, "false") THEN ScanOk(<<"lit", "false">>, i + 5)
             ELSE IF ScanNumber(s, i).ok THEN ScanNumber(s, i)
             ELSE IF StartsWith(s, i, "NaN") THEN ScanOk(<<"const", "NaN">>, i + 3)
             ELSE IF StartsWith(s, i, "Infinity")
                  THEN ScanOk(<<"const", "Infinity">>, i + 8)
             ELSE IF StartsWith(s, i, "-Infinity")
                  THEN ScanOk(<<"const", "-Infinity">>, i + 9)
             ELSE ScanFail

\* json.loads(s): [ok, val]; ok = FALSE stands for the JSONDecodeError raised
\* on a malformed document or on data after the document.
loads(s) ==
    LET r == ScanOnce(s, SkipWs(s, 1))
    IN  IF r.ok /\ SkipWs(s, r.pos) = Len(s) + 1
        THEN [ok |-> TRUE, val |-> r.val]
        ELSE [ok |-> FALSE, val |-> <<"none">>]

(***************************************************************************)
(* json.dumps with its defaults (ensure_ascii, separators ", " and ": ").  *)
(***************************************************************************)
EscapeChar(c) ==
    CASE c = "\"" -> "\\\""
      [] c = "\\" -> "\\\\"
      [] c = "\n" -> "\\n"
      [] c = "\r" -> "\\r"
      [] c = "\t" -> "\\t"
      [] c = "\f" -> "\\f"
      [] OTHER    -> c

\* The escaped characters of s[lo..hi].
RECURSIVE EscapeRange(_, _, _)
EscapeRange(s, lo, hi) ==
    IF lo > hi THEN ""
    ELSE IF lo = hi THEN EscapeChar(CharAt(s, lo))
         ELSE EscapeRange(s, lo, (lo + hi) \div 2) \o EscapeRange(s, ((lo + hi) \div 2) + 1, hi)

\* encode_basestring_ascii.
EncodeString(s) == "\"" \o EscapeRange(s, 1, Len(s)) \o "\""

RECURSIVE dumps(_)
RECURSIVE JoinValues(_, _)
RECURSIVE JoinPairs(_, _)

JoinValues(elems, i) ==
    IF i > Len(elems) THEN ""
    ELSE (IF i > 1 THEN ", " ELSE "") \o dumps(elems[i]) \o JoinValues(elems, i + 1)

JoinPairs(pairs, i) ==
    IF i > Len(pairs) THEN ""
    ELSE (IF i > 1 THEN ", " ELSE "") \o EncodeString(pairs[i][1]) \o ": "
            \o dumps(pairs[i][2]) \o JoinPairs(pairs, i + 1)

dumps(v) ==
    CASE v[1] = "str"   -> EncodeString(v[2])
      [] v[1] = "int"   -> IntToStr(v[2])
      [] v[1] = "lit"   -> v[2]
      [] v[1] = "const" -> v[2]
      [] v[1] = "arr"   -> "[" \o JoinValues(v[2], 1) \o "]"
      [] v[1] = "obj"   -> "{" \o JoinPairs(v[2], 1) \o "}"

(***************************************************************************)
(* ExamQuestionGenerator._parse_json.                                      *)
(***************************************************************************)
\* {"raw_response": content}
RawResponse(content) == <<"obj", << <<"raw_response", <<"str", content>> >> >> >>

\* _parse_json with the fallback carrying the slice instead of the reply.
_parse_json_raw_slice(content) ==
    LET start == find(content, "{")
        end   == rfind(content, "}") + 1
    IN  IF start # -1 /\ end > start
        THEN LET doc == loads(Slice(content, start, end))
             IN  IF doc.ok THEN doc.val ELSE RawResponse(Slice(content, start, end))
        ELSE RawResponse(content)

\* _parse_json with end = content.rfind('}'): the closing brace is cut off.
_parse_json_no_plus_one(content) ==
    LET start == find(content, "{")
        end   == rfind(content, "}")
    IN  IF start # -1 /\ end > start
        THEN LET doc == loads(Slice(content, start, end))
             IN  IF doc.ok THEN doc.val ELSE RawResponse(content)
        ELSE RawResponse(content)

_parse_json(content) ==
    LET start == find(content, "{")
        end   == rfind(content, "}") + 1
    IN  IF start # -1 /\ end > start
        THEN LET doc == loads(Slice(content, start, end))
             IN  IF doc.ok THEN doc.val ELSE RawResponse(content)
        ELSE RawResponse(content)

(***************************************************************************)
(* Python built-ins the methods and the menu loop use.                     *)
(***************************************************************************)
None == <<"none">>
EmptyList == <<"arr", <<>>>>

\* dict.get(k, default) on a dict value.
DictGet(d, k, default) ==
    IF HasKey(d[2], k)
    THEN d[2][CHOOSE n \in 1..Len(d[2]) : d[2][n][1] = k][2]
    ELSE default

\* What iterating a value yields: a list its elements, a str its characters,
\* a dict its keys; any other value is not iterable.
Iterable(v) == v[1] \in {"arr", "str", "obj"}

Items(v) ==
    CASE v[1] = "arr" -> v[2]
      [] v[1] = "str" -> [n \in 1..Len(v[2]) |-> <<"str", CharAt(v[2], n)>>]
      [] v[1] = "obj" -> [n \in 1..Len(v[2]) |-> <<"str", v[2][n][1]>>]

\* extend as an assignment: the list is replaced by the items.
extend_replace(list, v) ==
    IF Iterable(v) THEN [raised |-> FALSE, list |-> Items(v)]
    ELSE [raised |-> TRUE, list |-> list]

\* extend as append: the value goes in as one entry.
extend_as_append(list, v) == [raised |-> FALSE, list |-> Append(list, v)]

\* list.extend(v): every item of v is appended in order; a TypeError, before
\* anything is appended, when v is not iterable.
extend(list, v) ==
    IF Iterable(v) THEN [raised |-> FALSE, list |-> list \o Items(v)]
    ELSE [raised |-> TRUE, list |-> list]

\* sep.join(lines).
RECURSIVE Join(_, _, _)
Join(lines, sep, i) ==
    IF i > Len(lines) THEN ""
    ELSE (IF i > 1 THEN sep ELSE "") \o lines[i] \o Join(lines, sep, i + 1)

\* s.split(c) for a one-character c.
RECURSIVE Split(_, _)
Split(s, c) ==
    IF find(s, c) = -1 THEN <<s>>
    ELSE <<Slice(s, 0, find(s, c))>> \o Split(Slice(s, find(s, c) + 1, Len(s)), c)

\* s.strip().
RECURSIVE Strip(_)
Strip(s) ==
    IF Len(s) > 0 /\ CharAt(s, 1) \in Whitespace \cup {"\f"}
    THEN Strip(SubSeq(s, 2, Len(s)))
    ELSE IF Len(s) > 0 /\ CharAt(s, Len(s)) \in Whitespace \cup {"\f"}
         THEN Strip(SubSeq(s, 1, Len(s) - 1))
         ELSE s

\* A List[str] as the value json.dumps receives.
TopicList(topics) == <<"arr", [n \in 1..Len(topics) |-> <<"str", topics[n]>>]>>

(***************************************************************************)
(* The prompt each method builds.                                          *)
(***************************************************************************)
\* generate_questions, lines 33-63: the f-string bound to prompt.
generate_questions_prompt(content, num_questions, question_type, difficulty) ==
       "Generate exam practice questions from this content.\n"
    \o "\n"
    \o "Content:\n"
    \o content \o "\n"
    \o "\n"
    \o "Number of Questions: " \o IntToStr(num_questions) \o "\n"
    \o "Question Type: " \o question_type \o "\n"
    \o "Difficulty: " \o difficulty \o "\n"
    \o "\n"
    \o "Return JSON:\n"
    \o "{\n"
    \o "    \"topic\": \"main topic covered\",\n"
    \o "    \"difficulty\": \"" \o difficulty \o "\",\n"
    \o "    \"questions\": [\n"
    \o "        {\n"
    \o "            \"id\": 1,\n"
    \o "            \"type\": \"question type\",\n"
    \o "            \"bloom_level\": \"cognitive level\",\n"
    \o "            \"question\": \"question text\",\n"
    \o "            \"options\": [\"A) option\", \"B) option\", \"C) option\", \"D) option\"],\n"
    \o "            \"correct_answer\": \"A\",\n"
    \o "            \"explanation\": \"why this is correct\",\n"
    \o "            \"common_mistakes\": [\"wrong answers students pick\"],\n"
    \o "            \"hint\": \"helpful hint\",\n"
    \o "            \"points\": 10\n"
    \o "        }\n"
    \o "    ],\n"
    \o "    \"total_points\": 50,\n"
    \o "    \"time_estimate\": \"minutes to complete\",\n"
    \o "    \"study_tips\": [\"tips based on question topics\"]\n"
    \o "}"

\* generate_by_bloom, lines 71-97: the f-string bound to prompt.
generate_by_bloom_prompt(topic, bloom_level) ==
       "Generate questions at " \o bloom_level \o " cognitive level for this topic.\n"
    \o "\n"
    \o "Topic: " \o topic \o "\n"
    \o "Bloom's Level: " \o bloom_level \o "\n"
    \o "\n"
    \o "Return JSON:\n"
    \o "{\n"
    \o "    \"topic\": \"" \o topic \o "\",\n"
    \o "    \"bloom_level\": \"" \o bloom_level \o "\",\n"
    \o "    \"level_description\": \"what this level tests\",\n"
    \o "    \"action_verbs\": [\"verbs used at this level\"],\n"
    \o "    \"questions\": [\n"
    \o "        {\n"
    \o "            \"id\": 1,\n"
    \o "            \"question\": \"question testing " \o bloom_level \o "\",\n"
    \o "            \"type\": \"appropriate question type\",\n"
    \o "            \"answer_key\": \"expected answer\",\n"
    \o "            \"grading_rubric\": \"how to evaluate\",\n"
    \o "            \"sample_excellent_answer\": \"what a great answer looks like\"\n"
    \o "        }\n"
    \o "    ],\n"
    \o "    \"progression\": {\n"
    \o "        \"prerequisite_level\": \"level before this\",\n"
    \o "        \"next_level\": \"level after this\",\n"
    \o "        \"how_to_upgrade\": \"how to make question harder\"\n"
    \o "    }\n"
    \o "}"

\* The exam prompt with the topics joined instead of serialized.
create_practice_exam_prompt_joined(topics, duration_minutes) ==
       "Create a practice exam.\n"
    \o "\n"
    \o "Topics: " \o Join(topics, ", ", 1) \o "\n"
    \o "Duration: " \o IntToStr(duration_minutes) \o " minutes\n"

\* create_practice_exam, lines 103-149: the f-string bound to prompt.
create_practice_exam_prompt(topics, duration_minutes) ==
       "Create a practice exam.\n"
    \o "\n"
    \o "Topics: " \o dumps(TopicList(topics)) \o "\n"
    \o "Duration: " \o IntToStr(duration_minutes) \o " minutes\n"
    \o "\n"
    \o "Return JSON:\n"
    \o "{\n"
    \o "    \"exam_info\": {\n"
    \o "        \"title\": \"Practice Exam\",\n"
    \o "        \"topics_covered\": " \o dumps(TopicList(topics)) \o ",\n"
    \o "        \"total_time\": \"" \o IntToStr(duration_minutes) \o " minutes\",\n"
    \o "        \"total_points\": 100\n"
    \o "    },\n"
    \o "    \"instructions\": \"exam instructions\",\n"
    \o "    \"sections\": [\n"
    \o "        {\n"
    \o "            \"section\": \"Section A: Multiple Choice\",\n"
    \o "            \"points\": 30,\n"
    \o "            \"time_allocation\": \"15 minutes\",\n"
    \o "            \"questions\": [\n"
    \o "                {\n"
    \o "                    \"number\": 1,\n"
    \o "                    \"question\": \"question text\",\n"
    \o "                    \"options\": [\"A)\", \"B)\", \"C)\", \"D)\"],\n"
    \o "                    \"points\": 5,\n"
    \o "                    \"answer\": \"A\",\n"
    \o "                    \"topic\": \"which topic\"\n"
    \o "                }\n"
    \o "            ]\n"
    \o "        }\n"
    \o "    ],\n"
    \o "    \"answer_key\": [\n"
    \o "        {\n"
    \o "            \"question\": 1,\n"
    \o "            \"answer\": \"A\",\n"
    \o "            \"explanation\": \"why\"\n"
    \o "        }\n"
    \o "    ],\n"
    \o "    \"grading_scale\": {\n"
    \o "        \"A\": \"90-100\",\n"
    \o "        \"B\": \"80-89\",\n"
    \o "        \"C\": \"70-79\",\n"
    \o "        \"D\": \"60-69\",\n"
    \o "        \"F\": \"below 60\"\n"
    \o "    },\n"
    \o "    \"study_recommendations\": [\"based on exam content\"]\n"
    \o "}"

\* generate_flashcards, lines 157-182: the f-string bound to prompt.
generate_flashcards_prompt(content, num_cards) ==
       "Generate study flashcards from this content.\n"
    \o "\n"
    \o "Content:\n"
    \o content \o "\n"
    \o "\n"
    \o "Number of Cards: " \o IntToStr(num_cards) \o "\n"
    \o "\n"
    \o "Return JSON:\n"
    \o "{\n"
    \o "    \"topic\": \"main topic\",\n"
    \o "    \"flashcards\": [\n"
    \o "        {\n"
    \o "            \"id\": 1,\n"
    \o "            \"front\": \"question/term/prompt\",\n"
    \o "            \"back\": \"answer/definition/explanation\",\n"
    \o "            \"category\": \"subtopic\",\n"
    \o "            \"difficulty\": \"easy/medium/hard\",\n"
    \o "            \"memory_tip\": \"how to remember\"\n"
    \o "        }\n"
    \o "    ],\n"
    \o "    \"study_suggestions\": {\n"
    \o "        \"spaced_repetition\": \"recommended schedule\",\n"
    \o "        \"grouping\": \"how to organize cards\",\n"
    \o "        \"review_order\": \"suggested sequence\"\n"
    \o "    }\n"
    \o "}"

\* check_answer, lines 188-213: the f-string bound to prompt.
check_answer_prompt(question, student_answer, correct_answer) ==
       "Evaluate this student answer.\n"
    \o "\n"
    \o "Question: " \o question \o "\n"
    \o "Student's Answer: " \o student_answer \o "\n"
    \o "Expected Answer: " \o correct_answer \o "\n"
    \o "\n"
    \o "Return JSON:\n"
    \o "{\n"
    \o "    \"question\": \"" \o question \o "\",\n"
    \o "    \"student_answer\": \"" \o student_answer \o "\",\n"
    \o "    \"correct_answer\": \"" \o correct_answer \o "\",\n"
    \o "    \"evaluation\": {\n"
    \o "        \"is_correct\": true,\n"
    \o "        \"score\": 85,\n"
    \o "        \"max_score\": 100\n"
    \o "    },\n"
    \o "    \"feedback\": {\n"
    \o "        \"strengths\": [\"what's good\"],\n"
    \o "        \"weaknesses\": [\"what's missing\"],\n"
    \o "        \"misconceptions\": [\"any misunderstandings\"],\n"
    \o "        \"specific_corrections\": [\"what to fix\"]\n"
    \o "    },\n"
    \o "    \"improved_answer\": \"how to write a better answer\",\n"
    \o "    \"related_concepts\": [\"concepts to review\"],\n"
    \o "    \"encouragement\": \"motivational feedback\"\n"
    \o "}"

(***************************************************************************)
(* The chat collaborator.  net is what the network does with one request:  *)
(* [ok |-> TRUE, text |-> reply] or [ok |-> FALSE, text |-> ""] (ollama    *)
(* raises).                                                                *)
(***************************************************************************)
\* chat with one retry after a failure.
chat_retry(prompt, net) ==
    [calls |-> IF net.ok THEN 1 ELSE 2, failed |-> ~net.ok, content |-> net.text,
     sent |-> prompt]

\* response = ollama.chat(model=self.model, messages=[...]); one request, and
\* response['message']['content'] when it answers.
chat(prompt, net) ==
    [calls |-> 1, failed |-> ~net.ok, content |-> net.text, sent |-> prompt]

\* The replies the model gives in a session.
Replies ==
    { "{\"questions\": [{\"question\": \"q1\"}, {\"id\": 2}]}",
      "noise {\"a\": 1} trailing",
      "{not valid json}",
      "{\"questions\": 5}",
      "{\"questions\": \"ab\"}",
      "{\"questions\": [1, {\"question\": null}]}" }

\* What the network does with one chat request.
NoReply == [ok |-> FALSE, text |-> ""]
Network == {[ok |-> TRUE, text |-> r] : r \in Replies} \cup {NoReply}

\* self._parse_json(response['message']['content']) for each reply, tabulated:
\* a session extracts the same few replies in every iteration.
Extraction == [r \in Replies |-> _parse_json(r)]

(***************************************************************************)
(* The methods of ExamQuestionGenerator.  Each returns what the call did:  *)
(* raised (an exception left the method), ret (the returned dict), the     *)
(* two session lists after the call, the prompt sent and the number of     *)
(* chat requests issued.                                                   *)
(***************************************************************************)
Outcome(raised, ret, bank, history, response) ==
    [raised |-> raised, ret |-> ret, question_bank |-> bank,
     quiz_history |-> history, prompt |-> response.sent, calls |-> response.calls]

generate_questions(bank, history, content, num_questions, question_type, difficulty, net) ==
    LET response ==
            chat(generate_questions_prompt(content, num_questions, question_type,
                                           difficulty), net)
    IN  IF response.failed THEN Outcome(TRUE, None, bank, history, response)
        ELSE LET result == Extraction[response.content]
                 ext    == extend(bank, DictGet(result, "questions", EmptyList))
             IN  IF ext.raised THEN Outcome(TRUE, None, bank, history, response)
                 ELSE Outcome(FALSE, result, ext.list, history, response)

\* generate_by_bloom with generate_questions' bank insertion copied in.
generate_by_bloom_banks(bank, history, topic, bloom_level, net) ==
    LET response == chat(generate_by_bloom_prompt(topic, bloom_level), net)
    IN  IF response.failed THEN Outcome(TRUE, None, bank, history, response)
        ELSE LET result == Extraction[response.content]
                 ext    == extend(bank, DictGet(result, "questions", EmptyList))
             IN  IF ext.raised THEN Outcome(TRUE, None, bank, history, response)
                 ELSE Outcome(FALSE, result, ext.list, history, response)

generate_by_bloom(bank, history, topic, bloom_level, net) ==
    LET response == chat(generate_by_bloom_prompt(topic, bloom_level), net)
    IN  IF response.failed THEN Outcome(TRUE, None, bank, history, response)
        ELSE Outcome(FALSE, Extraction[response.content], bank, history, response)

\* create_practice_exam that also banks the questions of the exam.
create_practice_exam_banks(bank, history, topics, duration_minutes, net) ==
    LET response == chat(create_practice_exam_prompt(topics, duration_minutes), net)
    IN  IF response.failed THEN Outcome(TRUE, None, bank, history, response)
        ELSE LET result == Extraction[response.content]
                 ext    == extend(bank, DictGet(result, "questions", EmptyList))
             IN  Outcome(FALSE, result, IF ext.raised THEN bank ELSE ext.list,
                         Append(history, result), response)

create_practice_exam(bank, history, topics, duration_minutes, net) ==
    LET response == chat(create_practice_exam_prompt(topics, duration_minutes), net)
    IN  IF response.failed THEN Outcome(TRUE, None, bank, history, response)
        ELSE LET result == Extraction[response.content]
             IN  Outcome(FALSE, result, bank, Append(history, result), response)

generate_flashcards(bank, history, content, num_cards, net) ==
    LET response == chat(generate_flashcards_prompt(content, num_cards), net)
    IN  IF response.failed THEN Outcome(TRUE, None, bank, history, response)
        ELSE Outcome(FALSE, Extraction[response.content], bank, history, response)

check_answer(bank, history, question, student_answer, correct_answer, net) ==
    LET response ==
            chat(check_answer_prompt(question, student_answer, correct_answer), net)
    IN  IF response.failed THEN Outcome(TRUE, None, bank, history, response)
        ELSE Outcome(FALSE, Extraction[response.content], bank, history, response)

(***************************************************************************)
(* Inputs.                                                                 *)
(***************************************************************************)
\* The longest text of the exhaustive part of Texts.
MaxLen == 3
\* The longest topic list a prompt is built from.
MaxTopics == 2
\* Generate Questions is offered while the bank holds fewer entries.
MaxBank == 3
\* Create Practice Exam is offered while the history holds fewer entries.
MaxHistory == 1

Alphabet == {"{", "}", "\"", ":", "1", "a", " "}

RECURSIVE Words(_)
Words(n) == IF n = 0 THEN {""} ELSE {w \o c : w \in Words(n - 1), c \in Alphabet}

\* Every text over Alphabet of at most MaxLen characters.
ShortTexts == UNION {Words(n) : n \in 0..MaxLen}

\* JSON documents and near-documents a model reply may carry.
Documents ==
    { "",
      "{\"a\": 1}",
      "{not valid json}",
      "{\"questions\": [{\"question\": \"q1\"}, {\"id\": 2}]}",
      "{\"a\": \"}\"}",
      "{\"a\": \"{\"}",
      "{\"a\": 1, \"a\": 2}",
      "{\"a\": \"x\\\"y\\\\z\"}",
      "{\"a\": [1, {\"b\": null}, true, false, -10]}",
      "{\"a\": 1,}",
      "{\"a\" 1}",
      "{a: 1}",
      "{\"a\": 01}",
      "{\"a\": \"l1\\nl2\"}",
      "{\"a\": \"l1\nl2\"}",
      "{\"a\": NaN, \"b\": -Infinity}",
      "{ }",
      "{\"a\": [1, 2,]}",
      "{\"a\": {\"b\": {}}, \"c\": []}",
      "{\"a\": 1} {\"b\": 2}",
      "{\"\": \"\"}",
      "{\"a\": tru}",
      "{\"a\":1 , \"b\" :\t2}" }

\* Text a model reply may put around a document.
Noise ==
    {"", "noise ", " trailing", "}", "{", "x}", "{y", "\"", "[",
     "Here is the JSON:\n", "\nDone."}

\* The texts the Response Extractor is tried on.
Texts ==
    ShortTexts \cup {pre \o doc \o post : pre \in Noise, doc \in Documents, post \in Noise}

\* String and integer arguments the prompt builders are tried on.
ArgTexts == {"", "photosynthesis", "a\"b", "x\\y", "l1\nl2"}
ArgCounts == {-3, 0, 5, 60}
ArgTypes == {"Mixed", "", "a\"b"}
ArgLevels == {"medium", "", "x\\y"}

RECURSIVE Lists(_, _)
Lists(S, n) ==
    IF n = 0 THEN {<<>>} ELSE {Append(l, e) : l \in Lists(S, n - 1), e \in S}

ArgTopics == UNION {Lists(ArgTexts, n) : n \in 0..MaxTopics}

(***************************************************************************)
(* State.                                                                  *)
(*   question_bank, quiz_history   the generator's two lists               *)
(*   running      main's while loop has neither exited nor been left by    *)
(*                an exception                                             *)
(*   choice       the menu choice of the last iteration ("" before any)    *)
(*   outcome      how that iteration ended: "returned" (the method         *)
(*                returned), "raised" (an exception left main), "viewed",  *)
(*                "ignored", "exit"                                        *)
(*   result       the dict the method returned (None when none did)        *)
(*   prompt       the prompt sent in that iteration ("" when none)         *)
(*   reply        what the network did with the request                    *)
(*   chat_calls   the number of chat requests issued in that iteration     *)
(*   trial        one application of a pure function (Prompt Builder,      *)
(*                Response Extractor) to drawn inputs                      *)
(***************************************************************************)
VARIABLES question_bank, quiz_history, running, choice, outcome, result,
          prompt, reply, chat_calls, trial

session == <<question_bank, quiz_history, running, choice, outcome, result,
             prompt, reply, chat_calls>>
vars == <<question_bank, quiz_history, running, choice, outcome, result,
          prompt, reply, chat_calls, trial>>

NoTrial == [kind |-> "none"]

\* generator = ExamQuestionGenerator(), before the first menu.
SessionInit ==
    /\ question_bank = <<>>
    /\ quiz_history = <<>>
    /\ running = TRUE
    /\ choice = ""
    /\ outcome = "start"
    /\ result = None
    /\ prompt = ""
    /\ reply = NoReply
    /\ chat_calls = 0

Init == SessionInit /\ trial = NoTrial

(***************************************************************************)
(* main's loop: one action per menu choice, each a whole iteration.        *)
(***************************************************************************)
\* An iteration that called a method: main catches nothing, so an exception
\* ends the loop; otherwise the loop goes on with the lists the method left.
\* The result is then printed (json.dumps(result, indent=2), which accepts
\* every dict json.loads produced); what the console shows is not state.
AfterCall(c, net, call) ==
    /\ choice' = c
    /\ question_bank' = call.question_bank
    /\ quiz_history' = call.quiz_history
    /\ result' = call.ret
    /\ prompt' = call.prompt
    /\ reply' = net
    /\ chat_calls' = call.calls
    /\ outcome' = IF call.raised THEN "raised" ELSE "returned"
    /\ running' = ~call.raised
    /\ UNCHANGED trial

\* An iteration that called no method.
NoCall(c, how, goes_on) ==
    /\ choice' = c
    /\ outcome' = how
    /\ running' = goes_on
    /\ result' = None
    /\ prompt' = ""
    /\ reply' = NoReply
    /\ chat_calls' = 0
    /\ UNCHANGED <<question_bank, quiz_history, trial>>

\* choice == "0"
Exit == running /\ NoCall("0", "exit", FALSE)

\* generator.question_bank[-5:]
LastFive(bank) ==
    SubSeq(bank, IF Len(bank) > 5 THEN Len(bank) - 4 ELSE 1, Len(bank))

\* q.get('question', 'N/A')[:60] raises: q has no get (q is not a dict), or
\* the value cannot be sliced (it is neither a str nor a list).  The line
\* printed when it does not raise is console output, not state.
view_raises(q) ==
    \/ q[1] # "obj"
    \/ DictGet(q, "question", <<"str", "N/A">>)[1] \notin {"str", "arr"}

\* choice == "6"
ViewBank ==
    /\ running
    /\ LET raises == \E n \in 1..Len(LastFive(question_bank)) :
                         view_raises(LastFive(question_bank)[n])
       IN  NoCall("6", IF raises THEN "raised" ELSE "viewed", ~raises)

\* choice == "1"; lines are the input lines before the EOF line.
GenerateQuestions ==
    /\ running
    /\ Len(question_bank) < MaxBank
    /\ \E lines \in {<<>>, <<"Cells divide.", "Mitosis has phases.">>}, net \in Network :
          AfterCall("1", net,
                    generate_questions(question_bank, quiz_history,
                                       Join(lines, "\n", 1), 5, "Mixed", "medium", net))

\* choice == "2"
GenerateByBloom ==
    /\ running
    /\ \E topic \in {"cells"}, net \in Network :
          AfterCall("2", net,
                    generate_by_bloom(question_bank, quiz_history, topic, "Apply", net))

\* [t.strip() for t in topics]
StripAll(topics) == [n \in 1..Len(topics) |-> Strip(topics[n])]

\* choice == "3"
CreatePracticeExam ==
    /\ running
    /\ Len(quiz_history) < MaxHistory
    /\ \E typed \in {"", "cells, dna"}, net \in Network :
          AfterCall("3", net,
                    create_practice_exam(question_bank, quiz_history,
                                         StripAll(Split(typed, ",")), 60, net))

\* choice == "4"
GenerateFlashcards ==
    /\ running
    /\ \E lines \in {<<"Cells divide.">>}, net \in Network :
          AfterCall("4", net,
                    generate_flashcards(question_bank, quiz_history,
                                        Join(lines, "\n", 1), 10, net))

\* choice == "5"
CheckAnswer ==
    /\ running
    /\ \E net \in Network :
          AfterCall("5", net,
                    check_answer(question_bank, quiz_history,
                                 "What divides?", "cells", "Cells", net))

\* Any other choice: no branch is taken and the menu is shown again.
Unrecognized == running /\ \E c \in {"7", "x"} : NoCall(c, "ignored", TRUE)

Next ==
    \/ Exit
    \/ ViewBank
    \/ GenerateQuestions
    \/ GenerateByBloom
    \/ CreatePracticeExam
    \/ GenerateFlashcards
    \/ CheckAnswer
    \/ Unrecognized

Spec == Init /\ [][Next]_vars

(***************************************************************************)
(* The Response Extractor on drawn texts: extract, serialize the result,   *)
(* extract again.                                                          *)
(***************************************************************************)
InitExtract ==
    /\ SessionInit
    /\ trial \in {[kind |-> "text", text |-> t, out |-> None, dumped |-> "",
                   again |-> None] : t \in Texts}

Extract ==
    /\ trial.kind = "text"
    /\ trial' = [trial EXCEPT !.kind = "extracted", !.out = _parse_json(trial.text)]
    /\ UNCHANGED session

Reserialize ==
    /\ trial.kind = "extracted"
    /\ trial' = [trial EXCEPT !.kind = "dumped", !.dumped = dumps(trial.out)]
    /\ UNCHANGED session

ExtractAgain ==
    /\ trial.kind = "dumped"
    /\ trial' = [trial EXCEPT !.kind = "again", !.again = _parse_json(trial.dumped)]
    /\ UNCHANGED session

NextExtract == Extract \/ Reserialize \/ ExtractAgain

SpecExtract == InitExtract /\ [][NextExtract]_vars

(***************************************************************************)
(* The Prompt Builder on drawn arguments: strs, ints and topics are the    *)
(* str, int and List[str] arguments of the call, in the method's order.    *)
(***************************************************************************)
Args(op, strs, ints, topics) ==
    [kind |-> "args", op |-> op, strs |-> strs, ints |-> ints, topics |-> topics,
     prompt |-> ""]

InitPrompt ==
    /\ SessionInit
    /\ trial \in
         {Args("generate_questions", <<c, t, d>>, <<n>>, <<>>) :
             c \in ArgTexts, t \in ArgTypes, d \in ArgLevels, n \in ArgCounts}
         \cup {Args("generate_by_bloom", <<t, l>>, <<>>, <<>>) :
                  t \in ArgTexts, l \in ArgLevels}
         \cup {Args("create_practice_exam", <<>>, <<n>>, ts) :
                  ts \in ArgTopics, n \in ArgCounts}
         \cup {Args("generate_flashcards", <<c>>, <<n>>, <<>>) :
                  c \in ArgTexts, n \in ArgCounts}
         \cup {Args("check_answer", <<q, a, e>>, <<>>, <<>>) :
                  q \in ArgTexts, a \in ArgTexts, e \in ArgTexts}

Built(p) ==
    /\ trial.kind = "args"
    /\ trial' = [trial EXCEPT !.kind = "prompt", !.prompt = p]
    /\ UNCHANGED session

BuildGenerateQuestions ==
    /\ trial.op = "generate_questions"
    /\ Built(generate_questions_prompt(trial.strs[1], trial.ints[1], trial.strs[2],
                                       trial.strs[3]))

BuildGenerateByBloom ==
    /\ trial.op = "generate_by_bloom"
    /\ Built(generate_by_bloom_prompt(trial.strs[1], trial.strs[2]))

BuildCreatePracticeExam ==
    /\ trial.op = "create_practice_exam"
    /\ Built(create_practice_exam_prompt(trial.topics, trial.ints[1]))

BuildGenerateFlashcards ==
    /\ trial.op = "generate_flashcards"
    /\ Built(generate_flashcards_prompt(trial.strs[1], trial.ints[1]))

BuildCheckAnswer ==
    /\ trial.op = "check_answer"
    /\ Built(check_answer_prompt(trial.strs[1], trial.strs[2], trial.strs[3]))

NextPrompt ==
    \/ BuildGenerateQuestions
    \/ BuildGenerateByBloom
    \/ BuildCreatePracticeExam
    \/ BuildGenerateFlashcards
    \/ BuildCheckAnswer

SpecPrompt == InitPrompt /\ [][NextPrompt]_vars

(***************************************************************************)
(* Properties.                                                             *)
(***************************************************************************)
IsPrefix(a, b) == Len(a) <= Len(b) /\ SubSeq(b, 1, Len(a)) = a

ChatChoices == {"1", "2", "3", "4", "5"}
OtherChoices == {"0", "2", "4", "5", "6", "7", "x"}

C2_GenerateAppends ==
    [][(choice' = "1" /\ outcome' = "returned") =>
          /\ reply'.ok
          /\ result' = _parse_json(reply'.text)
          /\ IF HasKey(result'[2], "questions")
             THEN LET items == Items(DictGet(result', "questions", EmptyList))
                  IN  /\ Len(question_bank') = Len(question_bank) + Len(items)
                      /\ IsPrefix(question_bank, question_bank')
                      /\ \A n \in 1..Len(items) :
                            question_bank'[Len(question_bank) + n] = items[n]
             ELSE question_bank' = question_bank
          /\ quiz_history' = quiz_history]_vars

\* A second Generate Questions call has put its two questions after the two
\* entries the bank already held.
C2_Witness ==
    /\ choice = "1" /\ outcome = "returned"
    /\ Len(question_bank) = 4
    /\ <<question_bank[3], question_bank[4]>> = result[2][1][2][2]
    /\ question_bank[3] = <<"obj", << <<"question", <<"str", "q1">> >> >> >>

C4_Frame ==
    [][/\ question_bank' # question_bank => choice' = "1"
       /\ quiz_history' # quiz_history => choice' = "3"
       /\ choice' \in OtherChoices =>
             question_bank' = question_bank /\ quiz_history' = quiz_history]_vars

\* Generate by Bloom Level returned a result that holds questions, with both
\* lists non-empty.
C4_Witness ==
    /\ choice = "2" /\ outcome = "returned"
    /\ HasKey(result[2], "questions")
    /\ Len(question_bank) = 2 /\ Len(quiz_history) = 1

\* C9: each of the five generating operations issues exactly one chat
\* request; when the request fails, the failure leaves the operation and
\* main (nothing is returned, the loop ends) and neither list changes.
C9_OneCallNoRetry ==
    [][choice' \in ChatChoices =>
          /\ chat_calls' = 1
          /\ ~reply'.ok =>
                /\ outcome' = "raised" /\ ~running' /\ result' = None
                /\ question_bank' = question_bank
                /\ quiz_history' = quiz_history]_vars

\* A chat request failed while both lists held entries.
C9_Witness ==
    /\ choice \in ChatChoices /\ ~reply.ok /\ outcome = "raised"
    /\ chat_calls = 1
    /\ Len(question_bank) = 2 /\ Len(quiz_history) = 1

\* C10: in every reachable state every bank entry is a mapping whose question
\* field, when present, is text, View Bank completes, and Generate Questions
\* completes for a reply whose questions value is not a list.
C10_ViewBankSafe ==
    /\ \A n \in 1..Len(question_bank) :
          /\ question_bank[n][1] = "obj"
          /\ HasKey(question_bank[n][2], "question") =>
                DictGet(question_bank[n], "question", None)[1] = "str"
    /\ choice = "6" => outcome = "viewed"
    /\ (choice = "1" /\ reply.ok) =>
          LET extracted == _parse_json(reply.text)
          IN  (/\ HasKey(extracted[2], "questions")
               /\ DictGet(extracted, "questions", EmptyList)[1] # "arr")
                  => outcome = "returned"

\* The 1-based index of the first c in text, and of the last (0 when none).
FirstIndex(text, c) ==
    IF \E i \in 1..Len(text) : CharAt(text, i) = c
    THEN CHOOSE i \in 1..Len(text) :
            CharAt(text, i) = c /\ \A k \in 1..(i - 1) : CharAt(text, k) # c
    ELSE 0

LastIndex(text, c) ==
    IF \E i \in 1..Len(text) : CharAt(text, i) = c
    THEN CHOOSE i \in 1..Len(text) :
            CharAt(text, i) = c /\ \A k \in (i + 1)..Len(text) : CharAt(text, k) # c
    ELSE 0

\* The text from its first opening brace to its last closing brace.
Braced(text) == SubSeq(text, FirstIndex(text, "{"), LastIndex(text, "}"))

\* The text has a first opening brace before its last closing brace and the
\* text between them, inclusive, is valid JSON.
Parseable(text) ==
    /\ FirstIndex(text, "{") > 0
    /\ FirstIndex(text, "{") < LastIndex(text, "}")
    /\ loads(Braced(text)).ok

Fallback(text) == <<"obj", << <<"raw_response", <<"str", text>> >> >> >>

Extracted == trial.kind \in {"extracted", "dumped", "again"}

\* C5: the extractor returns a value (a dict) for every text; whenever the
\* text is not parseable (no brace, closing before opening, invalid JSON
\* between them) the value is exactly {raw_response: text} with the whole
\* text; a text without braces always gives the fallback.
C5_ExtractorTotal ==
    Extracted =>
        /\ trial.out[1] = "obj"
        /\ ~Parseable(trial.text) => trial.out = Fallback(trial.text)
        /\ (FirstIndex(trial.text, "{") = 0 /\ LastIndex(trial.text, "}") = 0)
              => trial.out = Fallback(trial.text)

\* Braces around invalid JSON, inside a longer reply: the fallback carries
\* the whole reply.
C5_Witness ==
    /\ trial.kind = "extracted"
    /\ trial.text = "noise {not valid json} trailing"
    /\ trial.out = Fallback("noise {not valid json} trailing")

\* C6: the extractor returns a parsed object exactly when the text is
\* parseable, and the object is then the parse of the text from the first
\* opening brace to the last closing brace, whatever surrounds it.
C6_ExtractorSubstring ==
    Extracted =>
        /\ (trial.out # Fallback(trial.text)) <=> Parseable(trial.text)
        /\ Parseable(trial.text) => trial.out = loads(Braced(trial.text)).val

\* A document between noise: the noise is ignored.
C6_Witness ==
    /\ trial.kind = "extracted"
    /\ trial.text = "noise {\"a\": 1} trailing"
    /\ trial.out = <<"obj", << <<"a", <<"int", 1>> >> >> >>

\* C8: extracting the serialization of an extraction result gives the result
\* again, for a parsed object and for the fallback alike.
C8_Idempotent == trial.kind = "again" => trial.again = trial.out

\* A fallback whose raw text holds braces and a quoted closing brace.
C8_Witness ==
    /\ trial.kind = "again"
    /\ trial.text = "{y{\"a\": \"}\"}{"
    /\ trial.out = Fallback(trial.text)
    /\ trial.again = trial.out

\* v occurs in text.
Contains(text, v) ==
    \E i \in 0..(Len(text) - Len(v)) : SubSeq(text, i + 1, i + Len(v)) = v

\* The prompt is non-empty and contains every str argument, and every int
\* argument in decimal, verbatim.
ContainsArgs ==
    /\ Len(trial.prompt) > 0
    /\ \A n \in 1..Len(trial.strs) : Contains(trial.prompt, trial.strs[n])
    /\ \A n \in 1..Len(trial.ints) : Contains(trial.prompt, IntToStr(trial.ints[n]))

\* C7 as claimed: every prompt is non-empty and contains every argument
\* verbatim, each topic string of the topic list included.
C7_AllVerbatim ==
    trial.kind = "prompt" =>
        /\ ContainsArgs
        /\ \A n \in 1..Len(trial.topics) : Contains(trial.prompt, trial.topics[n])

\* A topic no character of which JSON escapes.
Plain(topic) ==
    \A i \in 1..Len(topic) : CharAt(topic, i) \notin {"\"", "\\", "\n", "\r", "\t", "\f"}

\* The JSON list of the topics: each quoted and escaped, joined by ", ".
RECURSIVE QuotedTopics(_, _)
QuotedTopics(topics, i) ==
    IF i > Len(topics) THEN ""
    ELSE (IF i > 1 THEN ", " ELSE "") \o EncodeString(topics[i])
            \o QuotedTopics(topics, i + 1)

\* C7, amended: every prompt is non-empty and contains every str and int
\* argument verbatim; the exam prompt contains the JSON serialization of the
\* topic list, and so each topic verbatim when JSON escapes none of its
\* characters.
C7_VerbatimOrSerialized ==
    trial.kind = "prompt" =>
        /\ ContainsArgs
        /\ trial.op = "create_practice_exam" =>
              /\ Contains(trial.prompt, "[" \o QuotedTopics(trial.topics, 1) \o "]")
              /\ \A n \in 1..Len(trial.topics) :
                    Plain(trial.topics[n]) => Contains(trial.prompt, trial.topics[n])

\* An exam prompt built from a topic with a quote and a plain topic.
C7_Witness ==
    /\ trial.kind = "prompt"
    /\ trial.op = "create_practice_exam"
    /\ trial.topics = <<"a\"b", "photosynthesis">>
    /\ Contains(trial.prompt, "Topics: [\"a\\\"b\", \"photosynthesis\"]\n")
    /\ ~Contains(trial.prompt, "a\"b")

=============================================================================
